---- MODULE Spec2Model ----
(***************************************************************************)
(* Model of src/src/hosp/regression.py: the Model Factory (train_model),   *)
(* the Validator (validate), the Report Generator (nowcast_report), the    *)
(* Experiment Orchestrator (run_nowcast_experiment, plot_results) and the  *)
(* Predictor (predict).                                                    *)
(*                                                                         *)
(* Numbers: R2, MSE and penalized scores are kept in hundredths (0.04 is   *)
(* 4).  An epiweek is year * 100 + week.  Python's 0-based indices are     *)
(* 1-based here (sequences), window and backfill values stay 0-based.      *)
(***************************************************************************)
EXTENDS Integers, Sequences, FiniteSets, TLC

\* ------------------------------------------------------------------------
\* Program constants (flu_contest.src.hosp.constants, imported at line 16)
\* ------------------------------------------------------------------------
FIRST_YEAR == 2010
YEAR_WINDOW == 2
\* "add R^2 penalty of 0.04 * window_size", in hundredths
PENALTY == 4
\* np.full(..., -np.inf): below every finite metric of the model
NegInf == -100000

\* ------------------------------------------------------------------------
\* Bounds of the model
\* ------------------------------------------------------------------------
\* target periods start in seasons FIRST_YEAR - 1 .. FIRST_YEAR + MaxYears
MaxYears == 3
\* epiweeks in a target period of validate / run_nowcast_experiment
NumWeeks == 2
\* largest max_window argument of run_nowcast_experiment
MaxGridWindow == 1
\* largest max_window argument of predict, and largest calendar window
MaxSweepWindow == 3

\* ------------------------------------------------------------------------
\* Input domains
\* ------------------------------------------------------------------------
ValidTypes == {"lin", "ridge", "gbdt", "quant_lin", "quant_ridge", "quant_gbdt"}
ModelTypes == ValidTypes \cup {"svr"}
Modes == {"all", "prev"}
StartYears == (FIRST_YEAR - 1) .. (FIRST_YEAR + MaxYears)
\* (locations, groups) argument lists
PairLists == { << <<"CA", "NY">>, <<0>> >>, << <<"CA">>, <<0, 1>> >> }
Roles == <<"upper", "mid", "lower">>
None == <<>>

\* ------------------------------------------------------------------------
\* Collaborators outside src/ (hosp_utils, tools)
\* ------------------------------------------------------------------------
\* hosp_utils.get_start_year: the season an epiweek belongs to
get_start_year(epiweek) ==
    IF epiweek % 100 >= 40 THEN epiweek \div 100 ELSE (epiweek \div 100) - 1

\* hosp_utils.get_period(year, start_week, end_week): (start, end) epiweeks of
\* the season anchored at `year`
get_period(year, start_week, end_week) ==
    << year * 100 + start_week, (year + 1) * 100 + end_week >>

\* the epiweek after `epiweek` (52-week years)
NextWeek(epiweek) ==
    IF epiweek % 100 >= 52 THEN ((epiweek \div 100) + 1) * 100 + 1 ELSE epiweek + 1

\* hosp_utils.unravel: every epiweek from time_period[0] to time_period[1]
RECURSIVE unravel_from(_, _)
unravel_from(epiweek, last) ==
    IF epiweek > last THEN <<>>
    ELSE <<epiweek>> \o unravel_from(NextWeek(epiweek), last)

unravel(time_period) == unravel_from(time_period[1], time_period[2])

\* tools.create_double_list(val, length, width): a length x width grid, each
\* cell its own copy of val
create_double_list(val, length, width) ==
    [l \in 1..length |-> [g \in 1..width |-> val]]

\* range(a, b) as a sequence
RangeSeq(a, b) == [i \in 1..(IF b > a THEN b - a ELSE 0) |-> a + i - 1]

\* the elements of a list
SeqRange(s) == { s[i] : i \in 1..Len(s) }

Max(a, b) == IF a >= b THEN a ELSE b
Min(a, b) == IF a <= b THEN a ELSE b

\* the target period of NumWeeks weeks that opens season `year`
TargetPeriod(year) == << year * 100 + 40, year * 100 + 40 + NumWeeks - 1 >>

\* every data-store key a run over `time_period`, `locs`, `grps` can ask for
KeysOf(time_period, locs, grps) ==
    { <<unravel(time_period)[w], grps[g], locs[l]>> :
        w \in 1..Len(unravel(time_period)), g \in 1..Len(grps), l \in 1..Len(locs) }

VARIABLES
    \* inputs
    data,            \* the data store: the set of (epiweek, group, location) keys present
    mode,            \* training scheme
    model_type,      \* model-type tag
    \* validate
    v_pc,            \* position in validate / train_model
    time_period,     \* (start, end) of the target period
    locations, groups,
    start_year, period, model_periods,
    X,               \* the feature set prepare returned (the periods it was built from)
    models,          \* train_model's locals model_upper, model, model_lower
    fit_calls,       \* the fit calls made so far, each with the feature set it got
    ret,             \* the triple train_model returned to validate, None before
    v_err,           \* the exception that ended validate, "none" if none
    valid_weeks,
    grids,           \* predictions, predictions_lower, predictions_upper, cur_truth, ground_truth
    w_idx, l_idx, g_idx,
    \* run_nowcast_experiment
    e_pc,            \* position in run_nowcast_experiment
    location_groups, groupings, time_periods, max_window,
    e_err,           \* the exception that ended the experiment, "none" if none
    p_i, lg_i, gp_i, \* the period, location-grouping and age-grouping in hand
    window, backfill,
    mse_results, rsq_results,
    el, eg,          \* the (location, group) whose heatmaps are drawn next
    results,         \* the summary: (period, group) -> value
    written,         \* what write_data put in ./nowcast/results.txt, None before
    dirs,            \* directories created
    line_plots,      \* time-series plots saved by nowcast_report
    heatmaps,        \* heatmaps saved by plot_results, each with its labelled cells
    calls,           \* history: the (window, backfill) report calls of the block in hand
    observed,        \* history: (period, group) -> the largest R2 any report returned
    \* predict
    p_pc,            \* position in predict
    target_epiweek,  \* the epiweek argument
    arg_location_groups, arg_groupings,
    arg_max_window,  \* the max_window argument
    p_max_window,    \* max_window after line 363
    val_period,
    plg_idx, pgp_idx,
    opt_window, cur_rsq,
    p_window,        \* the loop variable of line 382
    cur_preds,       \* cur_preds, cur_preds_upper, cur_preds_lower
    preds,           \* preds, preds_upper, preds_lower
    fl, fg,          \* the (location, group) fetched next
    p_err,           \* the exception that ended predict, "none" if none
    sweep,           \* history: the validate calls of the pair in hand
    scores,          \* history: rsq of every iteration of the loop in hand (line 392)
    train_call,      \* history: the arguments of the pair's final prepare call, None before
    fetch_calls      \* history: the arguments of the pair's fetch calls

ivars == <<data, mode, model_type>>
vvars == <<v_pc, time_period, locations, groups, start_year, period, model_periods,
           X, models, fit_calls, ret, v_err, valid_weeks, grids, w_idx, l_idx, g_idx>>
evars == <<e_pc, location_groups, groupings, time_periods, max_window, e_err,
           p_i, lg_i, gp_i, window, backfill, mse_results, rsq_results, el, eg,
           results, written, dirs, line_plots, heatmaps, calls, observed>>
pvars == <<p_pc, target_epiweek, arg_location_groups, arg_groupings, arg_max_window,
           p_max_window, val_period, plg_idx, pgp_idx, opt_window, cur_rsq, p_window,
           cur_preds, preds, fl, fg, p_err, sweep, scores, train_call, fetch_calls>>
vars == <<ivars, vvars, evars, pvars>>

\* ------------------------------------------------------------------------
\* train_model
\* ------------------------------------------------------------------------
cotrain(mt) == mt = "quant_lin" \/ mt = "quant_ridge"

\* the estimator class each tag constructs (lines 42-68)
EstimatorClass(mt) ==
    CASE mt = "quant_lin"   -> "QuantLinear"
      [] mt = "quant_ridge" -> "QuantRidge"
      [] mt = "lin"         -> "RegLinear"
      [] mt = "ridge"       -> "RegRidge"
      [] mt = "gbdt"        -> "RegGBDT"
      [] mt = "quant_gbdt"  -> "QuantGBDT"
      [] OTHER              -> "unbound"

ConstructDefaulting(mt) ==
    IF EstimatorClass(mt) = "unbound"
    THEN [r \in {"upper", "mid", "lower"} |-> [class |-> "RegLinear", quant |-> r]]
    ELSE [r \in {"upper", "mid", "lower"} |-> [class |-> EstimatorClass(mt), quant |-> r]]

\* the three locals after the if/elif chains: bound only for a known tag
Construct(mt) ==
    IF EstimatorClass(mt) = "unbound" THEN None
    ELSE [r \in {"upper", "mid", "lower"} |-> [class |-> EstimatorClass(mt), quant |-> r]]

\* ------------------------------------------------------------------------
\* validate: training periods
\* ------------------------------------------------------------------------
ModelPeriodsInclusive(md, sy) ==
    IF md = "all"
    THEN [i \in 1..Len(RangeSeq(FIRST_YEAR, sy + 1)) |->
            get_period(RangeSeq(FIRST_YEAR, sy + 1)[i], 40, 17)]
    ELSE [i \in 1..Len(RangeSeq(Max(FIRST_YEAR, sy - YEAR_WINDOW), sy + 1)) |->
            get_period(RangeSeq(Max(FIRST_YEAR, sy - YEAR_WINDOW), sy + 1)[i], 40, 17)]

ModelPeriods(md, sy) ==
    IF md = "all"
    THEN [i \in 1..Len(RangeSeq(FIRST_YEAR, sy)) |->
            get_period(RangeSeq(FIRST_YEAR, sy)[i], 40, 17)]
    ELSE IF md = "prev"
    THEN [i \in 1..Len(RangeSeq(Max(FIRST_YEAR, sy - YEAR_WINDOW), sy)) |->
            get_period(RangeSeq(Max(FIRST_YEAR, sy - YEAR_WINDOW), sy)[i], 40, 17)]
    ELSE <<>>

\* preparation.prepare: the feature set, known here by the periods it covers
prepare(periods) == [periods |-> periods, empty |-> periods = <<>>]

\* ------------------------------------------------------------------------
\* validate: the week loop
\* ------------------------------------------------------------------------
GridNames == {"predictions", "predictions_lower", "predictions_upper",
              "cur_truth", "ground_truth"}

VisitWeekIfFirstPairHasData(vw, epiweek) ==
    IF <<epiweek, groups[1], locations[1]>> \in data THEN Append(vw, epiweek) ELSE vw

\* line 131
VisitWeek(vw, epiweek) == Append(vw, epiweek)

HasDataAnyGroup(epiweek, group, location) ==
    \E k \in data : k[1] = epiweek /\ k[3] = location

\* line 140
HasData(epiweek, group, location) == <<epiweek, group, location>> \in data

\* lines 141-154: one entry per grid for (l, g), tagged by name and epiweek
RecordResults(gr, l, g, epiweek) ==
    [n \in GridNames |->
        [gr[n] EXCEPT ![l][g] = Append(@, <<n, epiweek>>)]]

\* run_nowcast_experiment is not running
IdleExperiment ==
    /\ e_pc = "idle"
    /\ location_groups = <<>> /\ groupings = <<>> /\ time_periods = <<>>
    /\ max_window = 0
    /\ e_err = "none"
    /\ p_i = 0 /\ lg_i = 0 /\ gp_i = 0
    /\ window = 0 /\ backfill = 0
    /\ mse_results = None /\ rsq_results = None
    /\ el = 0 /\ eg = 0
    /\ results = <<>>
    /\ written = None
    /\ dirs = {}
    /\ line_plots = {}
    /\ heatmaps = {}
    /\ calls = <<>>
    /\ observed = <<>>

\* predict is not running
IdlePredict ==
    /\ p_pc = "idle"
    /\ target_epiweek = 0
    /\ arg_location_groups = <<>> /\ arg_groupings = <<>>
    /\ arg_max_window = 0 /\ p_max_window = 0
    /\ val_period = <<>>
    /\ plg_idx = 0 /\ pgp_idx = 0
    /\ opt_window = 0 /\ cur_rsq = 0 /\ p_window = 0
    /\ cur_preds = None /\ preds = None
    /\ fl = 0 /\ fg = 0
    /\ p_err = "none"
    /\ sweep = <<>>
    /\ scores = <<>>
    /\ train_call = None
    /\ fetch_calls = <<>>

InitInputs ==
    /\ model_type \in ModelTypes
    /\ mode \in Modes

InitValidate ==
    /\ InitInputs
    /\ \E pl \in PairLists, y \in StartYears :
        /\ locations = pl[1]
        /\ groups = pl[2]
        /\ time_period = TargetPeriod(y)
        /\ data \in SUBSET KeysOf(TargetPeriod(y), pl[1], pl[2])
    /\ v_pc = "start"
    /\ start_year = 0
    /\ period = <<>>
    /\ model_periods = <<>>
    /\ X = None
    /\ models = None
    /\ fit_calls = <<>>
    /\ ret = None
    /\ v_err = "none"
    /\ valid_weeks = <<>>
    /\ grids = None
    /\ w_idx = 0 /\ l_idx = 0 /\ g_idx = 0
    /\ IdleExperiment
    /\ IdlePredict

\* lines 106-116
VPeriods ==
    /\ v_pc = "start"
    /\ start_year' = get_start_year(time_period[1])
    /\ period' = unravel(time_period)
    /\ model_periods' = ModelPeriods(mode, get_start_year(time_period[1]))
    /\ v_pc' = "prepare"
    /\ UNCHANGED <<ivars, evars, pvars, time_period, locations, groups, X, models, fit_calls, ret,
                   v_err, valid_weeks, grids, w_idx, l_idx, g_idx>>

\* lines 118-120
VPrepare ==
    /\ v_pc = "prepare"
    /\ X' = prepare(model_periods)
    /\ v_pc' = "train"
    /\ UNCHANGED <<ivars, evars, pvars, time_period, locations, groups, start_year, period,
                   model_periods, models, fit_calls, ret, v_err, valid_weeks, grids,
                   w_idx, l_idx, g_idx>>

\* lines 39-68: a known tag binds the three estimators
TrainConstruct ==
    /\ v_pc = "train"
    /\ Construct(model_type) # None
    /\ models' = Construct(model_type)
    /\ v_pc' = "fit"
    /\ UNCHANGED <<ivars, evars, pvars, time_period, locations, groups, start_year, period,
                   model_periods, X, fit_calls, ret, v_err, valid_weeks, grids,
                   w_idx, l_idx, g_idx>>

\* line 70 with no branch taken: model_upper is unbound
TrainUnbound ==
    /\ v_pc = "train"
    /\ Construct(model_type) = None
    /\ v_err' = "UnboundLocalError"
    /\ v_pc' = "error"
    /\ UNCHANGED <<ivars, evars, pvars, time_period, locations, groups, start_year, period,
                   model_periods, X, models, fit_calls, ret, valid_weeks, grids,
                   w_idx, l_idx, g_idx>>

\* lines 46, 51: one joint fit of the three estimators
TrainFitJoint ==
    /\ v_pc = "fit"
    /\ cotrain(model_type)
    /\ fit_calls' = Append(fit_calls, [on |-> "joint", X |-> X])
    /\ v_pc' = "tm_return"
    /\ UNCHANGED <<ivars, evars, pvars, time_period, locations, groups, start_year, period,
                   model_periods, X, models, ret, v_err, valid_weeks, grids,
                   w_idx, l_idx, g_idx>>

\* lines 70-72: upper, mid, lower are fitted one after the other
TrainFitOne ==
    /\ v_pc = "fit"
    /\ ~cotrain(model_type)
    /\ Len(fit_calls) < Len(Roles)
    /\ fit_calls' = Append(fit_calls, [on |-> Roles[Len(fit_calls) + 1], X |-> X])
    /\ v_pc' = IF Len(fit_calls) + 1 = Len(Roles) THEN "tm_return" ELSE "fit"
    /\ UNCHANGED <<ivars, evars, pvars, time_period, locations, groups, start_year, period,
                   model_periods, X, models, ret, v_err, valid_weeks, grids,
                   w_idx, l_idx, g_idx>>

\* a fit on an empty feature set is undefined in the estimators: it may also raise
TrainFitEmptyRaises ==
    /\ v_pc = "fit"
    /\ X.empty
    /\ fit_calls' = Append(fit_calls,
            [on |-> IF cotrain(model_type) THEN "joint" ELSE Roles[Len(fit_calls) + 1],
             X |-> X])
    /\ v_err' = "EstimatorError"
    /\ v_pc' = "error"
    /\ UNCHANGED <<ivars, evars, pvars, time_period, locations, groups, start_year, period,
                   model_periods, X, models, ret, valid_weeks, grids,
                   w_idx, l_idx, g_idx>>

\* line 74 and lines 121-128: the triple is returned, the collectors are created
TrainReturn ==
    /\ v_pc = "tm_return"
    /\ ret' = <<models["upper"], models["mid"], models["lower"]>>
    /\ grids' = [n \in GridNames |-> create_double_list(<<>>, Len(locations), Len(groups))]
    /\ valid_weeks' = <<>>
    /\ w_idx' = 1
    /\ v_pc' = "week"
    /\ UNCHANGED <<ivars, evars, pvars, time_period, locations, groups, start_year, period,
                   model_periods, X, models, fit_calls, v_err, l_idx, g_idx>>

\* lines 130-131: the next epiweek is recorded as visited
VWeek ==
    /\ v_pc = "week"
    /\ w_idx <= Len(period)
    /\ valid_weeks' = VisitWeek(valid_weeks, period[w_idx])
    /\ l_idx' = 1 /\ g_idx' = 1
    /\ v_pc' = "pair"
    /\ UNCHANGED <<ivars, evars, pvars, time_period, locations, groups, start_year, period,
                   model_periods, X, models, fit_calls, ret, v_err, grids, w_idx>>

\* lines 133-154: one (location, group) pair of the current epiweek
VPair ==
    /\ v_pc = "pair"
    /\ grids' = IF HasData(period[w_idx], groups[g_idx], locations[l_idx])
                THEN RecordResults(grids, l_idx, g_idx, period[w_idx])
                ELSE grids
    /\ IF g_idx < Len(groups)
       THEN g_idx' = g_idx + 1 /\ UNCHANGED <<l_idx, w_idx, v_pc>>
       ELSE IF l_idx < Len(locations)
       THEN g_idx' = 1 /\ l_idx' = l_idx + 1 /\ UNCHANGED <<w_idx, v_pc>>
       ELSE w_idx' = w_idx + 1 /\ v_pc' = "week" /\ UNCHANGED <<l_idx, g_idx>>
    /\ UNCHANGED <<ivars, evars, pvars, time_period, locations, groups, start_year, period,
                   model_periods, X, models, fit_calls, ret, v_err, valid_weeks>>

\* lines 156-157
VReturn ==
    /\ v_pc = "week"
    /\ w_idx > Len(period)
    /\ v_pc' = "done"
    /\ UNCHANGED <<ivars, evars, pvars, time_period, locations, groups, start_year, period,
                   model_periods, X, models, fit_calls, ret, v_err, valid_weeks,
                   grids, w_idx, l_idx, g_idx>>

NextValidate ==
    \/ VPeriods
    \/ VPrepare
    \/ TrainConstruct
    \/ TrainUnbound
    \/ TrainFitJoint
    \/ TrainFitOne
    \/ TrainFitEmptyRaises
    \/ TrainReturn
    \/ VWeek
    \/ VPair
    \/ VReturn

SpecValidate == InitValidate /\ [][NextValidate]_vars

\* ------------------------------------------------------------------------
\* validate as one call (the week loop of lines 130-154 run to its end)
\* ------------------------------------------------------------------------
\* the entries lines 140-154 append for pair (l, g) over the period: one per
\* epiweek whose key is in the data store, in period order
PairEntries(n, per, locs, grps, l, g) ==
    LET weeks == SelectSeq(per, LAMBDA ew : HasData(ew, grps[g], locs[l]))
    IN [i \in 1..Len(weeks) |-> <<n, weeks[i]>>]

\* what validate returns when training raised nothing
ValidateRun(locs, grps, tp) ==
    [valid_weeks |-> unravel(tp),
     grids |-> [n \in GridNames |->
                  [l \in 1..Len(locs) |-> [g \in 1..Len(grps) |->
                      PairEntries(n, unravel(tp), locs, grps, l, g)]]]]

\* how lines 106-121 can end: an unknown tag raises at line 70, a fit on an
\* empty feature set may raise or not, anything else trains
TrainingOutcomes(md, mt, tp) ==
    IF Construct(mt) = None THEN {"UnboundLocalError"}
    ELSE IF prepare(ModelPeriods(md, get_start_year(tp[1]))).empty
    THEN {"EstimatorError", "none"}
    ELSE {"none"}

\* ------------------------------------------------------------------------
\* nowcast_report
\* ------------------------------------------------------------------------
\* outcomes of metrics.r2_score on a non-empty pair, in hundredths
R2Values == {-20, 90}
\* metrics.mean_squared_error of the same pair, the ground truth's variance
\* taken as 1: R2 = 1 - MSE / Var
MseOf(r2) == 100 - r2

\* the (l, g) pairs in the order of the loops of lines 200-203
PairSeq(nl, ng) == [k \in 1..(nl * ng) |-> << ((k - 1) \div ng) + 1, ((k - 1) % ng) + 1 >>]

\* line 205: sklearn's r2_score raises ValueError on sequences of no samples
R2Raises(run, pr) == Len(run.grids["ground_truth"][pr[1]][pr[2]]) = 0

\* lines 210-218: pyplot's plot raises ValueError when the index range and the
\* sequence differ in length
PlotRaises(run, pr) ==
    \E n \in GridNames : Len(run.grids[n][pr[1]][pr[2]]) # Len(run.valid_weeks)

\* the first pair of the loop at which the report raises, 0 if none
FirstFailure(run, nl, ng) ==
    LET bad == { k \in 1..(nl * ng) :
                    R2Raises(run, PairSeq(nl, ng)[k]) \/ PlotRaises(run, PairSeq(nl, ng)[k]) }
    IN IF bad = {} THEN 0 ELSE CHOOSE k \in bad : \A j \in bad : k <= j

\* every way one nowcast_report call can end
ReportOutcomes(locs, grps, tp, md, mt) ==
    LET run == ValidateRun(locs, grps, tp)
        nl == Len(locs)
        ng == Len(grps)
        k == FirstFailure(run, nl, ng)
    IN  { [err |-> e, plotted |-> 0, rsq |-> None, mse |-> None] :
            e \in TrainingOutcomes(md, mt, tp) \ {"none"} }
        \cup
        (IF "none" \notin TrainingOutcomes(md, mt, tp) THEN {}
         ELSE IF k # 0
         THEN { [err |-> IF R2Raises(run, PairSeq(nl, ng)[k])
                         THEN "ValueError in r2_score" ELSE "ValueError in plot",
                 plotted |-> k - 1, rsq |-> None, mse |-> None] }
         ELSE { [err |-> "none", plotted |-> nl * ng,
                 rsq |-> [l \in 1..nl |-> [g \in 1..ng |-> q[<<l, g>>]]],
                 mse |-> [l \in 1..nl |-> [g \in 1..ng |-> MseOf(q[<<l, g>>])]]] :
                q \in [ (1..nl) \X (1..ng) -> R2Values ] })

\* the plots lines 213-225 saved before the call ended
SavedPlots(path, locs, grps, w, b, n) ==
    { << path, locs[PairSeq(Len(locs), Len(grps))[k][1]],
         grps[PairSeq(Len(locs), Len(grps))[k][2]], w, b >> : k \in 1..n }

\* ------------------------------------------------------------------------
\* run_nowcast_experiment and plot_results
\* ------------------------------------------------------------------------
STATE_LIST == {"CA", "NY"}

\* lines 287-288: the sentinel matrix
RecordMat(mw) == [w \in 0..mw |-> [b \in 0..mw |-> NegInf]]

\* np.amax
amax(m) ==
    LET vals == { m[w][b] : w \in DOMAIN m, b \in DOMAIN m }
    IN CHOOSE v \in vals : \A u \in vals : v >= u

\* lines 255-256: the cells plot_results writes a label in
LabelledCells(length) == { <<i, j>> : i \in 0..(length - 1), j \in 0..(length - 1) } \cap
                         { c \in (0..(length - 1)) \X (0..(length - 1)) : c[2] <= c[1] }

NextCellFullGrid(w, b) == IF b < max_window THEN <<w, b + 1>> ELSE <<w + 1, 0>>

\* lines 306-307: the cell after (w, b) in the sweep
NextCell(w, b) == IF b < w THEN <<w, b + 1>> ELSE <<w + 1, 0>>

\* the inputs of the experiments of the model
ExperimentShapes ==
    { [lgs |-> << <<"CA", "NY">> >>, gps |-> << <<0>> >>],
      [lgs |-> << <<"CA">>, <<"NY">> >>, gps |-> << <<0>> >>],
      [lgs |-> << <<"CA">> >>, gps |-> << <<0>>, <<0, 1>> >>] }
ExperimentTypes == {"ridge", "svr"}
ExperimentYears == {FIRST_YEAR, FIRST_YEAR + 1}
Flat(ss) == UNION { { ss[i][j] : j \in 1..Len(ss[i]) } : i \in 1..Len(ss) }

\* validate is not running
IdleValidate ==
    /\ v_pc = "idle"
    /\ time_period = <<>> /\ locations = <<>> /\ groups = <<>>
    /\ start_year = 0 /\ period = <<>> /\ model_periods = <<>>
    /\ X = None /\ models = None /\ fit_calls = <<>> /\ ret = None
    /\ v_err = "none" /\ valid_weeks = <<>> /\ grids = None
    /\ w_idx = 0 /\ l_idx = 0 /\ g_idx = 0

InitExperiment ==
    /\ mode \in Modes
    /\ model_type \in ExperimentTypes
    /\ max_window \in 0..MaxGridWindow
    /\ \E sh \in ExperimentShapes, y \in ExperimentYears :
        /\ location_groups = sh.lgs
        /\ groupings = sh.gps
        /\ time_periods = <<TargetPeriod(y)>>
        /\ data \in SUBSET { <<ew, g, l>> :
                                ew \in SeqRange(unravel(TargetPeriod(y))),
                                g \in Flat(sh.gps), l \in Flat(sh.lgs) }
        /\ observed = [k \in {TargetPeriod(y)} \X Flat(sh.gps) |-> NegInf]
    /\ e_pc = "period"
    /\ e_err = "none"
    /\ p_i = 1 /\ lg_i = 0 /\ gp_i = 0
    /\ window = 0 /\ backfill = 0
    /\ mse_results = None /\ rsq_results = None
    /\ el = 0 /\ eg = 0
    /\ results = <<>>
    /\ written = None
    /\ dirs = {}
    /\ line_plots = {}
    /\ heatmaps = {}
    /\ calls = <<>>
    /\ IdleValidate
    /\ IdlePredict

\* './nowcast/' + str(period), known here by its period
ReportPath(tp) == tp

\* lines 290-299: the report directories of the period, made when missing
EPeriod ==
    /\ e_pc = "period"
    /\ p_i <= Len(time_periods)
    /\ dirs' = dirs \cup { <<ReportPath(time_periods[p_i]), st>> : st \in STATE_LIST \cup {"."} }
    /\ lg_i' = 1 /\ gp_i' = 1
    /\ e_pc' = "block"
    /\ UNCHANGED <<ivars, vvars, pvars, location_groups, groupings, time_periods, max_window,
                   e_err, p_i, window, backfill, mse_results, rsq_results, el, eg,
                   results, written, line_plots, heatmaps, calls, observed>>

\* lines 303-304: fresh metric matrices for every (location, group) of the block
EBlock ==
    /\ e_pc = "block"
    /\ mse_results' = create_double_list(RecordMat(max_window),
                          Len(location_groups[lg_i]), Len(groupings[gp_i]))
    /\ rsq_results' = create_double_list(RecordMat(max_window),
                          Len(location_groups[lg_i]), Len(groupings[gp_i]))
    /\ window' = 0 /\ backfill' = 0
    /\ calls' = <<>>
    /\ e_pc' = "sweep"
    /\ UNCHANGED <<ivars, vvars, pvars, location_groups, groupings, time_periods, max_window,
                   e_err, p_i, lg_i, gp_i, el, eg, results, written, dirs,
                   line_plots, heatmaps, observed>>

\* lines 308-317: one report call that returns, and the cells it fills
EReport ==
    /\ e_pc = "sweep"
    /\ window <= max_window
    /\ \E o \in ReportOutcomes(location_groups[lg_i], groupings[gp_i],
                               time_periods[p_i], mode, model_type) :
        /\ o.err = "none"
        /\ mse_results' = [l \in DOMAIN mse_results |-> [g \in DOMAIN mse_results[l] |->
                [mse_results[l][g] EXCEPT ![window][backfill] = o.mse[l][g]]]]
        /\ rsq_results' = [l \in DOMAIN rsq_results |-> [g \in DOMAIN rsq_results[l] |->
                [rsq_results[l][g] EXCEPT ![window][backfill] = o.rsq[l][g]]]]
        /\ observed' = [k \in DOMAIN observed |->
                IF k[1] = time_periods[p_i] /\ k[2] \in SeqRange(groupings[gp_i])
                THEN LET g == CHOOSE g \in 1..Len(groupings[gp_i]) :
                                    groupings[gp_i][g] = k[2]
                         best == CHOOSE v \in { o.rsq[l][g] : l \in DOMAIN o.rsq } :
                                    \A u \in { o.rsq[l][g] : l \in DOMAIN o.rsq } : v >= u
                     IN Max(observed[k], best)
                ELSE observed[k]]
        /\ line_plots' = line_plots \cup
                SavedPlots(ReportPath(time_periods[p_i]), location_groups[lg_i],
                           groupings[gp_i], window, backfill, o.plotted)
    /\ calls' = Append(calls, <<window, backfill>>)
    /\ window' = NextCell(window, backfill)[1]
    /\ backfill' = NextCell(window, backfill)[2]
    /\ UNCHANGED <<ivars, vvars, pvars, e_pc, location_groups, groupings, time_periods,
                   max_window, e_err, p_i, lg_i, gp_i, el, eg, results, written,
                   dirs, heatmaps>>

\* line 308: a report call that raises; nothing in the experiment catches it
EReportRaises ==
    /\ e_pc = "sweep"
    /\ window <= max_window
    /\ \E o \in ReportOutcomes(location_groups[lg_i], groupings[gp_i],
                               time_periods[p_i], mode, model_type) :
        /\ o.err # "none"
        /\ e_err' = o.err
        /\ line_plots' = line_plots \cup
                SavedPlots(ReportPath(time_periods[p_i]), location_groups[lg_i],
                           groupings[gp_i], window, backfill, o.plotted)
    /\ calls' = Append(calls, <<window, backfill>>)
    /\ e_pc' = "error"
    /\ UNCHANGED <<ivars, vvars, pvars, location_groups, groupings, time_periods, max_window,
                   p_i, lg_i, gp_i, window, backfill, mse_results, rsq_results,
                   el, eg, results, written, dirs, heatmaps, observed>>

\* the sweep of the block is over: on to its heatmaps (line 319)
ESweepDone ==
    /\ e_pc = "sweep"
    /\ window > max_window
    /\ el' = 1 /\ eg' = 1
    /\ e_pc' = "plot"
    /\ UNCHANGED <<ivars, vvars, pvars, location_groups, groupings, time_periods, max_window,
                   e_err, p_i, lg_i, gp_i, window, backfill, mse_results, rsq_results,
                   results, written, dirs, line_plots, heatmaps, calls, observed>>

\* lines 319-330: the two heatmaps of one (location, group) and its summary entry
EPlot ==
    /\ e_pc = "plot"
    /\ LET location == location_groups[lg_i][el]
           group == groupings[gp_i][eg]
           tp == time_periods[p_i]
       IN /\ heatmaps' = heatmaps \cup
                { [name |-> "mse", path |-> ReportPath(tp), location |-> location,
                   group |-> group,
                   labelled |-> LabelledCells(max_window + 1)],
                  [name |-> "rsq", path |-> ReportPath(tp), location |-> location,
                   group |-> group,
                   labelled |-> LabelledCells(max_window + 1)] }
          /\ results' = (<<tp, group>> :> amax(rsq_results[el][eg])) @@ results
    /\ IF eg < Len(groupings[gp_i])
       THEN eg' = eg + 1 /\ UNCHANGED <<el, gp_i, lg_i, p_i, e_pc>>
       ELSE IF el < Len(location_groups[lg_i])
       THEN eg' = 1 /\ el' = el + 1 /\ UNCHANGED <<gp_i, lg_i, p_i, e_pc>>
       ELSE /\ UNCHANGED <<el, eg>>
            /\ IF gp_i < Len(groupings)
               THEN gp_i' = gp_i + 1 /\ e_pc' = "block" /\ UNCHANGED <<lg_i, p_i>>
               ELSE IF lg_i < Len(location_groups)
               THEN gp_i' = 1 /\ lg_i' = lg_i + 1 /\ e_pc' = "block" /\ UNCHANGED p_i
               ELSE p_i' = p_i + 1 /\ e_pc' = "period" /\ UNCHANGED <<gp_i, lg_i>>
    /\ UNCHANGED <<ivars, vvars, pvars, location_groups, groupings, time_periods, max_window,
                   e_err, window, backfill, mse_results, rsq_results, written, dirs,
                   line_plots, calls, observed>>

\* line 332
EWrite ==
    /\ e_pc = "period"
    /\ p_i > Len(time_periods)
    /\ written' = results
    /\ e_pc' = "done"
    /\ UNCHANGED <<ivars, vvars, pvars, location_groups, groupings, time_periods, max_window,
                   e_err, p_i, lg_i, gp_i, window, backfill, mse_results, rsq_results,
                   el, eg, results, dirs, line_plots, heatmaps, calls, observed>>

NextExperiment ==
    \/ EPeriod
    \/ EBlock
    \/ EReport
    \/ EReportRaises
    \/ ESweepDone
    \/ EPlot
    \/ EWrite

SpecExperiment == InitExperiment /\ [][NextExperiment]_vars

\* ------------------------------------------------------------------------
\* predict
\* ------------------------------------------------------------------------
\* hosp_utils.get_max_window: the weeks of the season that precede the epiweek
get_max_window(ew) == IF ew % 100 >= 40 THEN (ew % 100) - 40 ELSE (ew % 100) + 12

SweepLimitNoCalendar(arg, ew) == arg

\* line 363
SweepLimit(arg, ew) == Min(arg, get_max_window(ew))

ImprovesOrTies(rsq, cur) == rsq >= cur

\* line 394
Improves(rsq, cur) == rsq > cur

\* outcomes of metrics.r2_score on the flattened validation results, in hundredths
SweepR2Values == {-20, 9, 10, 14, 37, 38}

\* line 392
Penalized(r2, w) == r2 - PENALTY * w

\* tools.flatten_double_list: the pairs' entries in one list
RECURSIVE FlattenFrom(_, _, _, _)
FlattenFrom(grid, nl, ng, k) ==
    IF k > nl * ng THEN <<>>
    ELSE grid[PairSeq(nl, ng)[k][1]][PairSeq(nl, ng)[k][2]] \o FlattenFrom(grid, nl, ng, k + 1)
flatten_double_list(grid, nl, ng) == FlattenFrom(grid, nl, ng, 1)

\* every way one iteration of the loop of line 382 can get its score:
\* validate raises, np.vstack raises ValueError on an empty list, or a score
SweepOutcomes(locs, grps, w) ==
    LET run == ValidateRun(locs, grps, val_period)
        train == TrainingOutcomes(mode, model_type, val_period)
    IN  { [err |-> e, score |-> 0] : e \in train \ {"none"} }
        \cup
        (IF "none" \notin train THEN {}
         ELSE IF flatten_double_list(run.grids["predictions"], Len(locs), Len(grps)) = <<>>
         THEN { [err |-> "ValueError in vstack", score |-> 0] }
         ELSE { [err |-> "none", score |-> Penalized(r, w)] : r \in SweepR2Values })

PredNames == {"preds", "preds_upper", "preds_lower"}

\* the inputs of the predictions of the model
PredictShapes ==
    { [lgs |-> << <<"CA", "NY">> >>, gps |-> << <<0>>, <<1>> >>] }
PredictTypes == {"lin", "svr"}
PredictYears == {FIRST_YEAR + 1, FIRST_YEAR + 2}
\* the target epiweek: early in the season or MaxSweepWindow weeks into it
PredictWeeks == {41, 40 + MaxSweepWindow}
\* data stores: empty, the first weeks of the validation season, and those
\* with the target epiweek
PredictStores(sh, ew) ==
    LET V == { <<w, g, l>> : w \in SeqRange(unravel(TargetPeriod(get_start_year(ew) - 1))),
                             g \in Flat(sh.gps), l \in Flat(sh.lgs) }
        T == { <<ew, g, l>> : g \in Flat(sh.gps), l \in Flat(sh.lgs) }
    IN { {}, V, V \cup T }

InitPredict ==
    /\ mode = "all"
    /\ model_type \in PredictTypes
    /\ arg_max_window \in 0..MaxSweepWindow
    /\ \E sh \in PredictShapes, y \in PredictYears, wk \in PredictWeeks :
        /\ arg_location_groups = sh.lgs
        /\ arg_groupings = sh.gps
        /\ target_epiweek = y * 100 + wk
        /\ data \in PredictStores(sh, y * 100 + wk)
    /\ p_pc = "start"
    /\ p_max_window = 0
    /\ val_period = <<>>
    /\ plg_idx = 0 /\ pgp_idx = 0
    /\ opt_window = 0 /\ cur_rsq = 0 /\ p_window = 0
    /\ cur_preds = None /\ preds = None
    /\ fl = 0 /\ fg = 0
    /\ p_err = "none"
    /\ sweep = <<>>
    /\ scores = <<>>
    /\ train_call = None
    /\ fetch_calls = <<>>
    /\ IdleValidate
    /\ IdleExperiment

\* lines 362-365
PStart ==
    /\ p_pc = "start"
    /\ p_max_window' = SweepLimit(arg_max_window, target_epiweek)
    /\ val_period' = get_period(get_start_year(target_epiweek) - 1, 40, 17)
    /\ preds' = [n \in PredNames |-> <<>>]
    /\ plg_idx' = 1 /\ pgp_idx' = 1
    /\ p_pc' = "pair"
    /\ UNCHANGED <<ivars, vvars, evars, target_epiweek, arg_location_groups, arg_groupings,
                   arg_max_window, opt_window, cur_rsq, p_window, cur_preds, fl, fg,
                   p_err, sweep, scores, train_call, fetch_calls>>

\* lines 367-378: the next (location-grouping, age-grouping) pair
PPair ==
    /\ p_pc = "pair"
    /\ cur_preds' = [n \in PredNames |->
            create_double_list(<<>>, Len(arg_location_groups[plg_idx]),
                               Len(arg_groupings[pgp_idx]))]
    /\ opt_window' = 0
    /\ cur_rsq' = 0
    /\ p_window' = 0
    /\ sweep' = <<>>
    /\ scores' = <<>>
    /\ train_call' = None
    /\ fetch_calls' = <<>>
    /\ p_pc' = "sweep"
    /\ UNCHANGED <<ivars, vvars, evars, target_epiweek, arg_location_groups, arg_groupings,
                   arg_max_window, p_max_window, val_period, plg_idx, pgp_idx, preds,
                   fl, fg, p_err>>

\* lines 382-396: one candidate window, scored and compared
PSweep ==
    /\ p_pc = "sweep"
    /\ p_window <= p_max_window
    /\ \E o \in SweepOutcomes(arg_location_groups[plg_idx], arg_groupings[pgp_idx], p_window) :
        /\ o.err = "none"
        /\ scores' = Append(scores, o.score)
        /\ IF Improves(o.score, cur_rsq)
           THEN opt_window' = p_window /\ cur_rsq' = o.score
           ELSE UNCHANGED <<opt_window, cur_rsq>>
    /\ sweep' = Append(sweep, [window |-> p_window, period |-> val_period,
                               left_window |-> p_window, backfill_window |-> p_window])
    /\ p_window' = p_window + 1
    /\ UNCHANGED <<ivars, vvars, evars, p_pc, target_epiweek, arg_location_groups,
                   arg_groupings, arg_max_window, p_max_window, val_period, plg_idx,
                   pgp_idx, cur_preds, preds, fl, fg, p_err, train_call, fetch_calls>>

\* lines 383-392: the validation or its scoring raises
PSweepRaises ==
    /\ p_pc = "sweep"
    /\ p_window <= p_max_window
    /\ \E o \in SweepOutcomes(arg_location_groups[plg_idx], arg_groupings[pgp_idx], p_window) :
        /\ o.err # "none"
        /\ p_err' = o.err
    /\ sweep' = Append(sweep, [window |-> p_window, period |-> val_period,
                               left_window |-> p_window, backfill_window |-> p_window])
    /\ p_pc' = "error"
    /\ UNCHANGED <<ivars, vvars, evars, target_epiweek, arg_location_groups, arg_groupings,
                   arg_max_window, p_max_window, val_period, plg_idx, pgp_idx, opt_window,
                   cur_rsq, p_window, cur_preds, preds, fl, fg, scores, train_call,
                   fetch_calls>>

\* lines 400-406: the loop is over (its scores are dropped), the model is
\* trained on the validation period with the selected window
PTrain ==
    /\ p_pc = "sweep"
    /\ p_window > p_max_window
    /\ Construct(model_type) # None
    /\ train_call' = [periods |-> <<val_period>>, lag |-> 0,
                      left_window |-> opt_window, right_window |-> 0,
                      backfill_window |-> opt_window]
    /\ scores' = <<>>
    /\ fl' = 1 /\ fg' = 1
    /\ p_pc' = "fetch"
    /\ UNCHANGED <<ivars, vvars, evars, target_epiweek, arg_location_groups, arg_groupings,
                   arg_max_window, p_max_window, val_period, plg_idx, pgp_idx, opt_window,
                   cur_rsq, p_window, cur_preds, preds, p_err, sweep, fetch_calls>>

\* lines 408-425: the features of one (location, group) at the target epiweek
\* and its three predictions
PFetch ==
    /\ p_pc = "fetch"
    /\ LET location == arg_location_groups[plg_idx][fl]
           group == arg_groupings[pgp_idx][fg]
       IN /\ fetch_calls' = Append(fetch_calls,
                [location |-> location, group |-> group, epiweek |-> target_epiweek,
                 lag |-> 0, left_window |-> opt_window, right_window |-> 0,
                 backfill_window |-> opt_window])
          /\ cur_preds' = [n \in PredNames |->
                [cur_preds[n] EXCEPT ![fl][fg] =
                    Append(@, [of |-> n, location |-> location, group |-> group,
                               epiweek |-> target_epiweek, window |-> opt_window])]]
    /\ IF fg < Len(arg_groupings[pgp_idx])
       THEN fg' = fg + 1 /\ UNCHANGED <<fl, p_pc>>
       ELSE IF fl < Len(arg_location_groups[plg_idx])
       THEN fg' = 1 /\ fl' = fl + 1 /\ UNCHANGED p_pc
       ELSE p_pc' = "assign" /\ UNCHANGED <<fl, fg>>
    /\ UNCHANGED <<ivars, vvars, evars, target_epiweek, arg_location_groups, arg_groupings,
                   arg_max_window, p_max_window, val_period, plg_idx, pgp_idx, opt_window,
                   cur_rsq, p_window, preds, p_err, sweep, scores, train_call>>

\* line 413 is not guarded by a membership test: with no (epiweek, group,
\* location) key in the store the fetch may raise
PFetchRaises ==
    /\ p_pc = "fetch"
    /\ ~HasData(target_epiweek, arg_groupings[pgp_idx][fg], arg_location_groups[plg_idx][fl])
    /\ fetch_calls' = Append(fetch_calls,
            [location |-> arg_location_groups[plg_idx][fl],
             group |-> arg_groupings[pgp_idx][fg], epiweek |-> target_epiweek,
             lag |-> 0, left_window |-> opt_window, right_window |-> 0,
             backfill_window |-> opt_window])
    /\ p_err' = "KeyError in fetch"
    /\ p_pc' = "error"
    /\ UNCHANGED <<ivars, vvars, evars, target_epiweek, arg_location_groups, arg_groupings,
                   arg_max_window, p_max_window, val_period, plg_idx, pgp_idx, opt_window,
                   cur_rsq, p_window, cur_preds, preds, fl, fg, sweep, scores, train_call>>

\* lines 427-437: the pair's predictions go to the three mappings
PAssign ==
    /\ p_pc = "assign"
    /\ LET locs == arg_location_groups[plg_idx]
           grps == arg_groupings[pgp_idx]
           keys == { <<locs[l], grps[g]>> : l \in 1..Len(locs), g \in 1..Len(grps) }
           idx(k) == CHOOSE pr \in (1..Len(locs)) \X (1..Len(grps)) :
                        locs[pr[1]] = k[1] /\ grps[pr[2]] = k[2]
       IN preds' = [n \in PredNames |->
                [k \in keys |-> cur_preds[n][idx(k)[1]][idx(k)[2]][1]] @@ preds[n]]
    /\ IF pgp_idx < Len(arg_groupings)
       THEN pgp_idx' = pgp_idx + 1 /\ p_pc' = "pair" /\ UNCHANGED plg_idx
       ELSE IF plg_idx < Len(arg_location_groups)
       THEN pgp_idx' = 1 /\ plg_idx' = plg_idx + 1 /\ p_pc' = "pair"
       ELSE p_pc' = "done" /\ UNCHANGED <<plg_idx, pgp_idx>>
    /\ UNCHANGED <<ivars, vvars, evars, target_epiweek, arg_location_groups, arg_groupings,
                   arg_max_window, p_max_window, val_period, opt_window, cur_rsq,
                   p_window, cur_preds, fl, fg, p_err, sweep, scores, train_call,
                   fetch_calls>>

NextPredict ==
    \/ PStart
    \/ PPair
    \/ PSweep
    \/ PSweepRaises
    \/ PTrain
    \/ PFetch
    \/ PFetchRaises
    \/ PAssign

SpecPredict == InitPredict /\ [][NextPredict]_vars

\* ------------------------------------------------------------------------
\* Claims about validate and train_model (SpecValidate)
\* ------------------------------------------------------------------------
InWeekLoop == v_pc \in {"week", "pair", "done"}
PairIdx == { <<l, g>> : l \in 1..Len(locations), g \in 1..Len(groups) }
\* the epiweeks of the period for which (epiweek, group, location) is in the data store
WeeksWithData(l, g) ==
    SelectSeq(unravel(time_period),
              LAMBDA ew : <<ew, groups[g], locations[l]>> \in data)
EpiweeksOf(entries) == [i \in 1..Len(entries) |-> entries[i][2]]

\* the step-by-step week loop ends in what ValidateRun computes in one go
ValidateRunAgrees ==
    v_pc = "done" =>
        /\ valid_weeks = ValidateRun(locations, groups, time_period).valid_weeks
        /\ grids = ValidateRun(locations, groups, time_period).grids

\* C2: at every point of validate's week loop (and at return) valid_weeks is at
\* least as long as every per-pair sequence of every result grid.
C2_ValidWeeksCoverPairs ==
    InWeekLoop =>
        \A n \in GridNames : \A p \in PairIdx :
            Len(valid_weeks) >= Len(grids[n][p[1]][p[2]])

\* a finished run in which one pair has an entry for every visited week and
\* another pair has fewer entries than visited weeks
C2_Witness ==
    /\ v_pc = "done"
    /\ \E p \in PairIdx : Len(grids["predictions"][p[1]][p[2]]) < Len(valid_weeks)
    /\ \E p \in PairIdx : /\ Len(grids["predictions"][p[1]][p[2]]) = Len(valid_weeks)
                          /\ Len(valid_weeks) > 0

\* C3: validate records every epiweek of the target period in valid_weeks, in
\* period order and exactly once, whatever the data store holds; a pair's
\* sequences get an entry for an epiweek exactly when (epiweek, group, location)
\* is in the data store; a missing key raises nothing.
C3_EveryWeekVisitedPairsOnlyWithData ==
    /\ InWeekLoop =>
        /\ v_err = "none"
        /\ Len(valid_weeks) <= Len(unravel(time_period))
        /\ valid_weeks = SubSeq(unravel(time_period), 1, Len(valid_weeks))
    /\ v_pc = "done" =>
        /\ valid_weeks = unravel(time_period)
        /\ \A n \in GridNames : \A p \in PairIdx :
              EpiweeksOf(grids[n][p[1]][p[2]]) = WeeksWithData(p[1], p[2])

\* a finished run over a store that lacks the first week's key of some pair
\* and holds that pair's key for a later week
C3_Witness ==
    /\ v_pc = "done"
    /\ Len(valid_weeks) = NumWeeks
    /\ \E p \in PairIdx :
          /\ <<valid_weeks[1], groups[p[2]], locations[p[1]]>> \notin data
          /\ Len(grids["ground_truth"][p[1]][p[2]]) > 0

\* C4: with a model-type tag outside the six known tags, train_model ends in
\* an error at once: nothing is constructed, nothing is fitted, no default
\* family is substituted and no triple is returned.
C4_UnknownTagFailsFast ==
    model_type \notin ValidTypes =>
        /\ models = None
        /\ fit_calls = <<>>
        /\ ret = None
        /\ v_pc \in {"start", "prepare", "train", "error"}
        /\ v_pc = "error" => v_err = "UnboundLocalError"

C4_Witness ==
    /\ model_type = "svr"
    /\ v_pc = "error"
    /\ v_err = "UnboundLocalError"

\* C5: an empty set of training periods never reaches a fit call of
\* train_model (validate stops with an empty-input error before).
C5_EmptyTrainingSetNeverFitted ==
    \A i \in 1..Len(fit_calls) : ~fit_calls[i].X.empty

\* C9: the training periods are one (week 40 to week 17) period per year y,
\* lower <= y < start_year, in ascending year order, where lower is
\* FIRST_YEAR in mode 'all' and max(FIRST_YEAR, start_year - YEAR_WINDOW) in
\* mode 'prev'; none is anchored at start_year or later; the 'prev' periods
\* are among the 'all' periods and are at most YEAR_WINDOW.
TrainingYears ==
    { y \in (FIRST_YEAR - 1)..(start_year + 1) :
        /\ y < start_year
        /\ y >= FIRST_YEAR
        /\ mode = "prev" => y >= start_year - YEAR_WINDOW }

C9_TrainingPeriods ==
    v_pc # "start" =>
        /\ SeqRange(model_periods) =
              { << y * 100 + 40, (y + 1) * 100 + 17 >> : y \in TrainingYears }
        /\ Len(model_periods) = Cardinality(TrainingYears)
        /\ \A i \in 1..Len(model_periods) : \A j \in 1..Len(model_periods) :
              i < j => model_periods[i][1] < model_periods[j][1]
        /\ \A i \in 1..Len(model_periods) :
              get_start_year(model_periods[i][1]) < start_year
        /\ mode = "prev" =>
              /\ SeqRange(model_periods) \subseteq SeqRange(ModelPeriods("all", start_year))
              /\ Len(model_periods) <= YEAR_WINDOW

\* mode 'prev' with the year window, not FIRST_YEAR, bounding the set: it is
\* full and strictly smaller than the 'all' set
C9_Witness ==
    /\ v_pc # "start"
    /\ mode = "prev"
    /\ Len(model_periods) = YEAR_WINDOW
    /\ start_year - YEAR_WINDOW > FIRST_YEAR
    /\ Len(ModelPeriods("all", start_year)) > YEAR_WINDOW

\* ------------------------------------------------------------------------
\* Claims about run_nowcast_experiment (SpecExperiment)
\* ------------------------------------------------------------------------
GridCells == (0..max_window) \X (0..max_window)
Triangle == { c \in GridCells : c[2] <= c[1] }
\* the report calls of the block in hand that returned
Returned ==
    { calls[i] : i \in 1..(IF e_pc = "error" THEN Len(calls) - 1 ELSE Len(calls)) }
BlockPairs ==
    { <<l, g>> : l \in 1..Len(location_groups[lg_i]), g \in 1..Len(groupings[gp_i]) }

\* C6: a failing metric computation for one pair (r2_score on a pair with no
\* observation in the period) never ends the experiment.
C6_MetricFailureNeverAborts ==
    ~(e_pc = "error" /\ e_err = "ValueError in r2_score")

\* C7: within a block (period, location-grouping, age-grouping) the report is
\* called at most once per (window, backfill) and only with
\* 0 <= backfill <= window <= max_window; a cell of a metric matrix differs
\* from the sentinel exactly when a report call for it returned; when the
\* heatmaps are drawn every cell of the triangle has been reported once and
\* every cell with backfill > window holds negative infinity; plot_results
\* labels exactly the cells (i, j) with j <= i.
C7_TriangularGrid ==
    /\ e_pc \in {"sweep", "plot", "error"} =>
        /\ \A i \in 1..Len(calls) : calls[i] \in Triangle
        /\ \A i \in 1..Len(calls) : \A j \in 1..Len(calls) : i # j => calls[i] # calls[j]
        /\ \A pr \in BlockPairs : \A c \in GridCells :
              /\ rsq_results[pr[1]][pr[2]][c[1]][c[2]] # NegInf <=> c \in Returned
              /\ mse_results[pr[1]][pr[2]][c[1]][c[2]] # NegInf <=> c \in Returned
    /\ e_pc = "plot" =>
        /\ Returned = Triangle
        /\ Len(calls) = Cardinality(Triangle)
        /\ \A pr \in BlockPairs : \A c \in GridCells \ Triangle :
              /\ rsq_results[pr[1]][pr[2]][c[1]][c[2]] = NegInf
              /\ mse_results[pr[1]][pr[2]][c[1]][c[2]] = NegInf
    /\ \A h \in heatmaps : h.labelled = Triangle

\* heatmaps have been drawn from a grid that has cells off the triangle
C7_Witness ==
    /\ max_window >= 1
    /\ \E h \in heatmaps : h.name = "rsq"
    /\ e_pc = "plot"
    /\ rsq_results[1][1][0][max_window] = NegInf
    /\ rsq_results[1][1][max_window][max_window] # NegInf
    /\ Len(calls) = Cardinality(Triangle)

\* C8: when the experiment has finished, the summary value of every
\* (period, group) is the largest R2 any report returned for that period and
\* group, over every location and every grouping the group was evaluated in.
C8_SummaryIsOverallMax ==
    e_pc = "done" => \A k \in DOMAIN written : written[k] = observed[k]

\* ------------------------------------------------------------------------
\* Claims about predict (SpecPredict)
\* ------------------------------------------------------------------------
ScoreSet == { scores[i] : i \in 1..Len(scores) }
MaxScore == CHOOSE m \in ScoreSet : \A x \in ScoreSet : m >= x

\* C1: after any number of iterations of the window sweep, with scores[w + 1]
\* the penalized score of window w: if the largest score is above 0.0 the
\* selected window is the smallest window with that score (and cur_rsq is
\* that score), otherwise the selected window is 0 (and cur_rsq is 0.0).
C1_FirstStrictMaximum ==
    (p_pc \in {"sweep", "error"} /\ Len(scores) > 0) =>
        IF MaxScore > 0
        THEN /\ opt_window + 1 \in 1..Len(scores)
             /\ scores[opt_window + 1] = MaxScore
             /\ \A i \in 1..opt_window : scores[i] < MaxScore
             /\ cur_rsq = MaxScore
        ELSE /\ opt_window = 0
             /\ cur_rsq = 0

\* the sweep of the specification's example is over: scores 0.10, 0.05, 0.30,
\* 0.25 for windows 0..3 have selected window 2
C1_Witness ==
    /\ p_pc = "sweep"
    /\ p_window > p_max_window
    /\ scores = <<10, 5, 30, 25>>
    /\ opt_window = 2

ExpectedLimit == Min(arg_max_window, get_max_window(target_epiweek))
ExpectedValPeriod ==
    << (get_start_year(target_epiweek) - 1) * 100 + 40,
       get_start_year(target_epiweek) * 100 + 17 >>

\* C10: for every (location-grouping, age-grouping) pair the selection starts
\* from window 0 and score 0.0; the validate calls of the sweep are for the
\* windows 0, 1, 2, ... in ascending order, none beyond min(max_window,
\* get_max_window(epiweek)), each with left_window = backfill_window = the
\* candidate on the prior season; the selected window is one of them; the
\* final training happens only after all of them, and it and every fetch for
\* the target epiweek use left_window = backfill_window = the selected window.
C10_SweepAndSelection ==
    /\ (p_pc = "sweep" /\ sweep = <<>>) =>
          opt_window = 0 /\ cur_rsq = 0 /\ p_window = 0
    /\ p_pc \notin {"idle", "start"} =>
        /\ Len(sweep) <= ExpectedLimit + 1
        /\ \A i \in 1..Len(sweep) :
              /\ sweep[i].window = i - 1
              /\ sweep[i].left_window = i - 1
              /\ sweep[i].backfill_window = i - 1
              /\ sweep[i].period = ExpectedValPeriod
        /\ opt_window \in 0..ExpectedLimit
        /\ opt_window < Max(1, Len(sweep))
        /\ train_call # None =>
              /\ Len(sweep) = ExpectedLimit + 1
              /\ train_call.periods = <<ExpectedValPeriod>>
              /\ train_call.left_window = opt_window
              /\ train_call.backfill_window = opt_window
        /\ fetch_calls # <<>> => train_call # None
        /\ \A i \in 1..Len(fetch_calls) :
              /\ fetch_calls[i].epiweek = target_epiweek
              /\ fetch_calls[i].left_window = opt_window
              /\ fetch_calls[i].backfill_window = opt_window

\* predict has returned; the calendar, not the argument, bounded the sweep;
\* the first pair selected window 1 and the second pair, starting afresh,
\* window 0
C10_Witness ==
    /\ p_pc = "done"
    /\ get_max_window(target_epiweek) < arg_max_window
    /\ preds["preds"][<<"CA", 0>>].window = 1
    /\ preds["preds"][<<"NY", 1>>].window = 0
    /\ Len(fetch_calls) = Len(arg_location_groups[plg_idx]) * Len(arg_groupings[pgp_idx])

\* ------------------------------------------------------------------------
\* Claims about nowcast_report (SpecExperiment)
\* ------------------------------------------------------------------------
\* what validate returned to the report call in hand
ReportRun == ValidateRun(location_groups[lg_i], groupings[gp_i], time_periods[p_i])
\* the pair at which the report call in hand stopped
FailedPair ==
    PairSeq(Len(location_groups[lg_i]), Len(groupings[gp_i]))
        [FirstFailure(ReportRun, Len(location_groups[lg_i]), Len(groupings[gp_i]))]

\* C11: the plotting step of nowcast_report needs a pair's five sequences to
\* be as long as each other only, not as long as valid_weeks: a report stops
\* with a length mismatch in the plot only at a pair whose five sequences
\* differ in length among themselves, never at a pair that merely has fewer
\* entries than there are visited weeks.
C11_PlotNeedsOnlyEqualPairLengths ==
    (e_pc = "error" /\ e_err = "ValueError in plot") =>
        \E n \in GridNames : \E m \in GridNames :
            Len(ReportRun.grids[n][FailedPair[1]][FailedPair[2]])
                # Len(ReportRun.grids[m][FailedPair[1]][FailedPair[2]])

====
